---------------------------- MODULE Spec2Model ----------------------------
(***************************************************************************)
(* A model of python/pyright_shim.py: the JSON-RPC path rewrite shim that  *)
(* sits between an editor (the client) and a Pyright child process.        *)
(*                                                                         *)
(* Text is modelled as sequences of one-character strings, so that prefix  *)
(* tests, percent-encoding, JSON serialisation and the Content-Length      *)
(* framing are computed character by character, as the code computes them. *)
(* The modelled alphabet is printable ASCII plus CR, LF and TAB.           *)
(*                                                                         *)
(* A JSON value (a Python object after json.loads) is a tagged record:     *)
(*   [t |-> "null"]             None                                       *)
(*   [t |-> "bool", v |-> b]    True / False                               *)
(*   [t |-> "num",  v |-> n]    an int                                     *)
(*   [t |-> "str",  v |-> s]    a str, s a sequence of characters          *)
(*   [t |-> "list", v |-> xs]   a list                                     *)
(*   [t |-> "dict", v |-> ps]   a dict: the sequence of its items in       *)
(*                              insertion order, each [k |-> key, v |-> x] *)
(***************************************************************************)
EXTENDS Integers, Sequences, FiniteSets, TLC

(***************************************************************************)
(* Characters and strings                                                  *)
(***************************************************************************)

\* Printable ASCII, code points 32..126 in order: AsciiChars[n - 31] = chr(n).
\* (Code 96, the grave accent, cannot be written in a string literal here and is
\* held by a token.)
AsciiChars == <<" ", "!", "\"", "#", "$", "%", "&", "'", "(", ")", "*", "+", ",", "-", ".", "/",
                "0", "1", "2", "3", "4", "5", "6", "7", "8", "9", ":", ";", "<", "=", ">", "?",
                "@", "A", "B", "C", "D", "E", "F", "G", "H", "I", "J", "K", "L", "M", "N", "O",
                "P", "Q", "R", "S", "T", "U", "V", "W", "X", "Y", "Z", "[", "\\", "]", "^", "_",
                "<grave>", "a", "b", "c", "d", "e", "f", "g", "h", "i", "j", "k", "l", "m", "n", "o",
                "p", "q", "r", "s", "t", "u", "v", "w", "x", "y", "z", "{", "|", "}", "~">>

Printable == {AsciiChars[i] : i \in 1..Len(AsciiChars)}

\* ord(c) of a printable character.
Ord(c) == 31 + (CHOOSE i \in 1..Len(AsciiChars) : AsciiChars[i] = c)

\* chr(n); a byte outside the modelled alphabet is kept as an opaque token.
Chr(n) ==
  IF n \in 32..126 THEN AsciiChars[n - 31]
  ELSE IF n = 9 THEN "\t"
  ELSE IF n = 10 THEN "\n"
  ELSE IF n = 13 THEN "\r"
  ELSE "<byte>"

DigitChars == <<"0", "1", "2", "3", "4", "5", "6", "7", "8", "9">>
IsDigit(c) == \E i \in 1..10 : DigitChars[i] = c
DigitVal(c) == (CHOOSE i \in 1..10 : DigitChars[i] = c) - 1

HexUpper == <<"0", "1", "2", "3", "4", "5", "6", "7", "8", "9", "A", "B", "C", "D", "E", "F">>
HexLower == <<"0", "1", "2", "3", "4", "5", "6", "7", "8", "9", "a", "b", "c", "d", "e", "f">>
IsHex(c) == \E i \in 1..16 : HexUpper[i] = c \/ HexLower[i] = c
HexVal(c) == (CHOOSE i \in 1..16 : HexUpper[i] = c \/ HexLower[i] = c) - 1

IsUpper(c) == c \in Printable /\ Ord(c) \in 65..90
IsAlnum(c) == c \in Printable /\ (Ord(c) \in 48..57 \/ Ord(c) \in 65..90 \/ Ord(c) \in 97..122)

\* str.lower() on one character.
\* F applied to the value of x, with x evaluated once.
Bind(x, F(_)) == CHOOSE y \in {F(v) : v \in {x}} : TRUE

LowerChar(c) == IF IsUpper(c) THEN Chr(Ord(c) + 32) ELSE c
Lower(s) == Bind(s, LAMBDA t : [i \in 1..Len(t) |-> LowerChar(t[i])])

\* Whitespace as str.strip() and the JSON scanner see it.
Whitespace == {" ", "\t", "\n", "\r"}

\* str.startswith(p)
StartsWith(s, p) == Len(s) >= Len(p) /\ SubSeq(s, 1, Len(p)) = p

\* s[n:]
Drop(s, n) == SubSeq(s, n + 1, Len(s))

\* s[:n]
Take(s, n) == SubSeq(s, 1, IF n < Len(s) THEN n ELSE Len(s))

\* s[i-1:j], empty when it would run past the end
Slice(s, i, j) == IF j <= Len(s) THEN SubSeq(s, i, j) ELSE <<>>

\* c in s
Contains(s, c) == \E i \in 1..Len(s) : s[i] = c

\* s.strip()
Strip(s) ==
  Bind(s, LAMBDA t :
    Bind({i \in 1..Len(t) : t[i] \notin Whitespace}, LAMBDA keep :
      IF keep = {} THEN <<>>
      ELSE SubSeq(t, CHOOSE i \in keep : \A j \in keep : i <= j,
                     CHOOSE i \in keep : \A j \in keep : i >= j)))

\* str(n) for an int.
RECURSIVE NatToStr(_)
NatToStr(n) == IF n < 10 THEN <<DigitChars[n + 1]>>
               ELSE NatToStr(n \div 10) \o <<DigitChars[(n % 10) + 1]>>

IntToStr(n) == IF n < 0 THEN <<"-">> \o NatToStr(-n) ELSE NatToStr(n)

\* The value of a non-empty string of decimal digits.
RECURSIVE DigitsToNat(_)
DigitsToNat(s) == IF Len(s) = 0 THEN 0
                  ELSE 10 * DigitsToNat(SubSeq(s, 1, Len(s) - 1)) + DigitVal(s[Len(s)])

AllDigits(s) == Len(s) > 0 /\ \A i \in 1..Len(s) : IsDigit(s[i])

(***************************************************************************)
(* JSON values                                                             *)
(***************************************************************************)

JNull == [t |-> "null"]
JBool(b) == [t |-> "bool", v |-> b]
JNum(n) == [t |-> "num", v |-> n]
JStr(s) == [t |-> "str", v |-> s]
JList(xs) == [t |-> "list", v |-> xs]
JDict(ps) == [t |-> "dict", v |-> ps]
Item(k, x) == [k |-> k, v |-> x]

\* None in Python is the value json.loads gives for the body 'null'.
None == JNull

\* isinstance tests
IsStr(x) == x.t = "str"
IsList(x) == x.t = "list"
IsDict(x) == x.t = "dict"

\* key in d, d a dict
HasKey(d, k) == \E i \in 1..Len(d.v) : d.v[i].k = k

\* d[k], for a key d has
Get(d, k) == d.v[CHOOSE i \in 1..Len(d.v) : d.v[i].k = k].v

\* result[key] = x on the item sequence of a dict under construction.
SetItem(ps, k, x) ==
  IF \E i \in 1..Len(ps) : ps[i].k = k
  THEN [i \in 1..Len(ps) |-> IF ps[i].k = k THEN Item(k, x) ELSE ps[i]]
  ELSE Append(ps, Item(k, x))

(***************************************************************************)
(* PathRewriter                                                            *)
(***************************************************************************)

FileScheme2 == <<"f", "i", "l", "e", ":", "/", "/">>
FileScheme3 == <<"f", "i", "l", "e", ":", "/", "/", "/">>

K_uri == <<"u", "r", "i">>
K_workspaceFolders == <<"w", "o", "r", "k", "s", "p", "a", "c", "e", "F", "o", "l", "d", "e", "r", "s">>
K_id == <<"i", "d">>
K_method == <<"m", "e", "t", "h", "o", "d">>
K_name == <<"n", "a", "m", "e">>
K_result == <<"r", "e", "s", "u", "l", "t">>

PATH_KEYS == {
  K_uri,
  <<"t", "a", "r", "g", "e", "t", "U", "r", "i">>,
  <<"s", "o", "u", "r", "c", "e">>,
  <<"f", "i", "l", "e">>,
  <<"p", "a", "t", "h">>,
  <<"r", "o", "o", "t", "P", "a", "t", "h">>,
  <<"r", "o", "o", "t", "U", "r", "i">>,
  K_workspaceFolders,
  <<"d", "o", "c", "u", "m", "e", "n", "t", "U", "r", "i">>,
  <<"n", "e", "w", "U", "r", "i">>,
  <<"o", "l", "d", "U", "r", "i">>,
  <<"b", "a", "s", "e", "U", "r", "i">>,
  <<"r", "e", "f", "e", "r", "e", "n", "c", "e", "U", "r", "i">>,
  <<"t", "a", "r", "g", "e", "t", "R", "a", "n", "g", "e">>,
  <<"t", "a", "r", "g", "e", "t", "S", "e", "l", "e", "c", "t", "i", "o", "n", "R", "a", "n", "g", "e">> }

\* Characters urllib.parse.quote(path, safe='/') never encodes.
QuoteSafe(c) == IsAlnum(c) \/ c \in {"_", ".", "-", "~", "/"}

\* quote() of one character: '%XX', upper-case hex of its code.
QuoteChar(c) ==
  IF QuoteSafe(c) THEN <<c>>
  ELSE <<"%", HexUpper[(Ord(c) \div 16) + 1], HexUpper[(Ord(c) % 16) + 1]>>

\* quote(path, safe='/')
RECURSIVE encode_uri_component(_)
encode_uri_component(s) ==
  IF Len(s) = 0 THEN <<>>
  ELSE QuoteChar(Head(s)) \o encode_uri_component(Tail(s))

\* unquote(path): every '%XX' with two hex digits becomes the byte it names;
\* a '%' not followed by two hex digits stays.
RECURSIVE decode_uri_component(_)
decode_uri_component(s) ==
  IF Len(s) = 0 THEN <<>>
  ELSE IF Head(s) = "%" /\ Len(s) >= 3 /\ IsHex(s[2]) /\ IsHex(s[3])
       THEN <<Chr(16 * HexVal(s[2]) + HexVal(s[3]))>> \o decode_uri_component(Drop(s, 3))
       ELSE <<Head(s)>> \o decode_uri_component(Tail(s))

\* Variant of RewriteUri: the path of the URI is not percent-decoded.
RewriteUri_NoDecode(value, marker, from_prefix, to_prefix) ==
  LET path == Drop(value, Len(marker))
  IN  IF StartsWith(path, from_prefix)
      THEN marker \o encode_uri_component(to_prefix \o Drop(path, Len(from_prefix)))
      ELSE value

\* The body shared by both 'file://' branches of rewrite_path: `marker` is
\* the literal the branch tested and strips, value the whole string.
RewriteUri(value, marker, from_prefix, to_prefix) ==
  LET raw == Drop(value, Len(marker))
      path == IF Contains(raw, "%") THEN decode_uri_component(raw) ELSE raw
  IN  IF StartsWith(path, from_prefix)
      THEN marker \o encode_uri_component(to_prefix \o Drop(path, Len(from_prefix)))
      ELSE value

\* Variant of RewritePathStr: the three-slash test comes first.
RewritePathStr_ThreeFirst(value, from_prefix, to_prefix) ==
  IF StartsWith(value, FileScheme3)
  THEN RewriteUri(value, FileScheme3, from_prefix, to_prefix)
  ELSE IF StartsWith(value, FileScheme2)
  THEN RewriteUri(value, FileScheme2, from_prefix, to_prefix)
  ELSE IF StartsWith(value, from_prefix)
  THEN to_prefix \o Drop(value, Len(from_prefix))
  ELSE value

\* PathRewriter.rewrite_path on a str.
RewritePathStr(value, from_prefix, to_prefix) ==
  IF StartsWith(value, FileScheme2)
  THEN RewriteUri(value, FileScheme2, from_prefix, to_prefix)
  ELSE IF StartsWith(value, FileScheme3)
  THEN RewriteUri(value, FileScheme3, from_prefix, to_prefix)
  ELSE IF StartsWith(value, from_prefix)
  THEN to_prefix \o Drop(value, Len(from_prefix))
  ELSE value

\* Variant of rewrite_path: the prefix is replaced without being tested for.
rewrite_path_NoTest(value, from_prefix, to_prefix) ==
  IF ~IsStr(value) THEN value
  ELSE IF StartsWith(value.v, FileScheme2)
  THEN JStr(RewritePathStr(value.v, from_prefix, to_prefix))
  ELSE JStr(to_prefix \o Drop(value.v, Len(from_prefix)))

\* PathRewriter.rewrite_path
rewrite_path(value, from_prefix, to_prefix) ==
  IF ~IsStr(value) THEN value
  ELSE JStr(RewritePathStr(value.v, from_prefix, to_prefix))

\* Variant of rewrite_object: a string is rewritten only under a key of PATH_KEYS.
RECURSIVE rewrite_object_NoFallback(_, _, _)
rewrite_object_NoFallback(obj, from_prefix, to_prefix) ==
  IF IsDict(obj) THEN
    JDict([i \in 1..Len(obj.v) |->
             Item(obj.v[i].k,
                  IF obj.v[i].k \in PATH_KEYS /\ IsStr(obj.v[i].v)
                  THEN rewrite_path(obj.v[i].v, from_prefix, to_prefix)
                  ELSE rewrite_object_NoFallback(obj.v[i].v, from_prefix, to_prefix))])
  ELSE IF IsList(obj) THEN
    JList([i \in 1..Len(obj.v) |-> rewrite_object_NoFallback(obj.v[i], from_prefix, to_prefix)])
  ELSE obj

\* PathRewriter.rewrite_object
RECURSIVE rewrite_object(_, _, _)
rewrite_object(obj, from_prefix, to_prefix) ==
  IF IsDict(obj) THEN
    LET RewriteValue(key, value) ==
          IF key \in PATH_KEYS THEN
            IF IsStr(value) THEN rewrite_path(value, from_prefix, to_prefix)
            ELSE IF IsList(value) THEN
              JList([i \in 1..Len(value.v) |->
                       IF IsStr(value.v[i])
                       THEN rewrite_path(value.v[i], from_prefix, to_prefix)
                       ELSE rewrite_object(value.v[i], from_prefix, to_prefix)])
            ELSE rewrite_object(value, from_prefix, to_prefix)
          ELSE IF key = K_workspaceFolders /\ IsList(value) THEN
            JList([i \in 1..Len(value.v) |->
                     rewrite_object(value.v[i], from_prefix, to_prefix)])
          ELSE rewrite_object(value, from_prefix, to_prefix)
    IN  JDict([i \in 1..Len(obj.v) |->
                 Item(obj.v[i].k, RewriteValue(obj.v[i].k, obj.v[i].v))])
  ELSE IF IsList(obj) THEN
    JList([i \in 1..Len(obj.v) |-> rewrite_object(obj.v[i], from_prefix, to_prefix)])
  ELSE IF IsStr(obj) THEN
    IF StartsWith(obj.v, from_prefix) \/ StartsWith(obj.v, FileScheme2)
    THEN rewrite_path(obj, from_prefix, to_prefix)
    ELSE obj
  ELSE obj

(***************************************************************************)
(* json.dumps(message, separators=(',', ':')) and json.loads               *)
(*                                                                         *)
(* Numbers are ints; floats, NaN and Infinity are outside the modelled     *)
(* alphabet, as are characters above 126.                                  *)
(***************************************************************************)

QUOTE == "\""
BACKSLASH == "\\"

\* Variant of EscapeChar: a backslash is written as it is.
EscapeChar_NoBackslash(c) ==
  IF c = QUOTE THEN <<BACKSLASH, QUOTE>>
  ELSE IF c = "\n" THEN <<BACKSLASH, "n">>
  ELSE IF c = "\r" THEN <<BACKSLASH, "r">>
  ELSE IF c = "\t" THEN <<BACKSLASH, "t">>
  ELSE <<c>>

\* The escape json.dumps writes for one character of a str (ensure_ascii).
EscapeChar(c) ==
  IF c = QUOTE THEN <<BACKSLASH, QUOTE>>
  ELSE IF c = BACKSLASH THEN <<BACKSLASH, BACKSLASH>>
  ELSE IF c = "\n" THEN <<BACKSLASH, "n">>
  ELSE IF c = "\r" THEN <<BACKSLASH, "r">>
  ELSE IF c = "\t" THEN <<BACKSLASH, "t">>
  ELSE <<c>>

RECURSIVE EscapeStr(_)
EscapeStr(s) == IF Len(s) = 0 THEN <<>> ELSE EscapeChar(Head(s)) \o EscapeStr(Tail(s))

DumpStr(s) == <<QUOTE>> \o EscapeStr(s) \o <<QUOTE>>

ITEM_SEPARATOR == <<",">>
KEY_SEPARATOR == <<":">>

RECURSIVE json_dumps(_)
RECURSIVE DumpElems(_, _)
RECURSIVE DumpItems(_, _)

\* The elements xs[i..] of a list, joined by the item separator.
DumpElems(xs, i) ==
  IF i > Len(xs) THEN <<>>
  ELSE json_dumps(xs[i]) \o (IF i < Len(xs) THEN ITEM_SEPARATOR ELSE <<>>) \o DumpElems(xs, i + 1)

\* The items ps[i..] of a dict, in insertion order.
DumpItems(ps, i) ==
  IF i > Len(ps) THEN <<>>
  ELSE DumpStr(ps[i].k) \o KEY_SEPARATOR \o json_dumps(ps[i].v)
       \o (IF i < Len(ps) THEN ITEM_SEPARATOR ELSE <<>>) \o DumpItems(ps, i + 1)

json_dumps(x) ==
  CASE x.t = "null" -> <<"n", "u", "l", "l">>
    [] x.t = "bool" -> IF x.v THEN <<"t", "r", "u", "e">> ELSE <<"f", "a", "l", "s", "e">>
    [] x.t = "num"  -> IntToStr(x.v)
    [] x.t = "str"  -> DumpStr(x.v)
    [] x.t = "list" -> <<"[">> \o DumpElems(x.v, 1) \o <<"]">>
    [] x.t = "dict" -> <<"{">> \o DumpItems(x.v, 1) \o <<"}">>

\* A failed scan: json.JSONDecodeError.
ParseError == [ok |-> FALSE]
Parsed(x, next) == [ok |-> TRUE, val |-> x, pos |-> next]

\* The index of the first non-whitespace character at or after i.
RECURSIVE SkipWs(_, _)
SkipWs(s, i) == IF i <= Len(s) /\ s[i] \in Whitespace THEN SkipWs(s, i + 1) ELSE i

\* The index after the last digit of the run of digits starting at i.
RECURSIVE SkipDigits(_, _)
SkipDigits(s, i) == IF i <= Len(s) /\ IsDigit(s[i]) THEN SkipDigits(s, i + 1) ELSE i

\* py_scanstring from index i, just after the opening quote (strict mode).
RECURSIVE ScanString(_, _, _)
ScanString(s, i, acc) ==
  IF i > Len(s) THEN ParseError
  ELSE IF s[i] = QUOTE THEN Parsed(acc, i + 1)
  ELSE IF s[i] \in {"\n", "\r", "\t"} THEN ParseError
  ELSE IF s[i] # BACKSLASH THEN ScanString(s, i + 1, Append(acc, s[i]))
  ELSE IF i + 1 > Len(s) THEN ParseError
  ELSE IF s[i + 1] \in {QUOTE, BACKSLASH, "/"} THEN ScanString(s, i + 2, Append(acc, s[i + 1]))
  ELSE IF s[i + 1] = "n" THEN ScanString(s, i + 2, Append(acc, "\n"))
  ELSE IF s[i + 1] = "r" THEN ScanString(s, i + 2, Append(acc, "\r"))
  ELSE IF s[i + 1] = "t" THEN ScanString(s, i + 2, Append(acc, "\t"))
  ELSE IF s[i + 1] = "b" THEN ScanString(s, i + 2, Append(acc, Chr(8)))
  ELSE IF s[i + 1] = "f" THEN ScanString(s, i + 2, Append(acc, Chr(12)))
  ELSE IF s[i + 1] = "u" /\ i + 5 <= Len(s) /\ \A j \in 2..5 : IsHex(s[i + j])
       THEN ScanString(s, i + 6,
              Append(acc, IF HexVal(s[i + 2]) = 0 /\ HexVal(s[i + 3]) = 0
                          THEN Chr(16 * HexVal(s[i + 4]) + HexVal(s[i + 5]))
                          ELSE Chr(0)))
  ELSE ParseError

\* The int literal at i: -?(0|[1-9][0-9]*).
ScanNumber(s, i) ==
  Bind(IF s[i] = "-" THEN i + 1 ELSE i, LAMBDA d :
    Bind(IF d <= Len(s) /\ s[d] = "0" THEN d + 1 ELSE SkipDigits(s, d), LAMBDA e :
      IF e = d THEN ParseError
      ELSE Parsed(JNum(IF d = i THEN DigitsToNat(SubSeq(s, d, e - 1))
                       ELSE -DigitsToNat(SubSeq(s, d, e - 1))), e)))

RECURSIVE ScanOnce(_, _)
RECURSIVE ScanArray(_, _, _)
RECURSIVE ScanObject(_, _, _)

\* JSONArray after the first element position: i is where a value must start.
ScanArray(s, i, acc) ==
  Bind(ScanOnce(s, i), LAMBDA x :
    IF ~x.ok THEN ParseError
    ELSE Bind(SkipWs(s, x.pos), LAMBDA j :
      IF j > Len(s) THEN ParseError
      ELSE IF s[j] = "]" THEN Parsed(JList(Append(acc, x.val)), j + 1)
      ELSE IF s[j] = "," THEN ScanArray(s, SkipWs(s, j + 1), Append(acc, x.val))
      ELSE ParseError))

\* JSONObject: i is where the opening quote of a key must be.
ScanObject(s, i, acc) ==
  IF i > Len(s) \/ s[i] # QUOTE THEN ParseError
  ELSE
    Bind(ScanString(s, i + 1, <<>>), LAMBDA key :
      IF ~key.ok THEN ParseError
      ELSE Bind(SkipWs(s, key.pos), LAMBDA c :
        IF c > Len(s) \/ s[c] # ":" THEN ParseError
        ELSE Bind(ScanOnce(s, SkipWs(s, c + 1)), LAMBDA x :
          IF ~x.ok THEN ParseError
          ELSE Bind(SkipWs(s, x.pos), LAMBDA j :
            IF j > Len(s) THEN ParseError
            ELSE IF s[j] = "}" THEN Parsed(JDict(SetItem(acc, key.val, x.val)), j + 1)
            ELSE IF s[j] = "," THEN ScanObject(s, SkipWs(s, j + 1), SetItem(acc, key.val, x.val))
            ELSE ParseError))))

\* scan_once: the value starting at index i.
ScanOnce(s, i) ==
  IF i > Len(s) THEN ParseError
  ELSE IF s[i] = QUOTE THEN
    Bind(ScanString(s, i + 1, <<>>), LAMBDA r :
      IF r.ok THEN Parsed(JStr(r.val), r.pos) ELSE ParseError)
  ELSE IF s[i] = "{" THEN
    Bind(SkipWs(s, i + 1), LAMBDA j :
      IF j <= Len(s) /\ s[j] = "}" THEN Parsed(JDict(<<>>), j + 1)
      ELSE ScanObject(s, j, <<>>))
  ELSE IF s[i] = "[" THEN
    Bind(SkipWs(s, i + 1), LAMBDA j :
      IF j <= Len(s) /\ s[j] = "]" THEN Parsed(JList(<<>>), j + 1)
      ELSE ScanArray(s, j, <<>>))
  ELSE IF Slice(s, i, i + 3) = <<"n", "u", "l", "l">> THEN Parsed(JNull, i + 4)
  ELSE IF Slice(s, i, i + 3) = <<"t", "r", "u", "e">> THEN Parsed(JBool(TRUE), i + 4)
  ELSE IF Slice(s, i, i + 4) = <<"f", "a", "l", "s", "e">> THEN Parsed(JBool(FALSE), i + 5)
  ELSE IF s[i] = "-" \/ IsDigit(s[i]) THEN ScanNumber(s, i)
  ELSE ParseError

\* json.loads(body): one value, whitespace around it, nothing else.
json_loads(s) ==
  Bind(ScanOnce(s, SkipWs(s, 1)), LAMBDA r :
    IF ~r.ok THEN ParseError
    ELSE IF SkipWs(s, r.pos) # Len(s) + 1 THEN ParseError
    ELSE r)

(***************************************************************************)
(* Message framing: JsonRpcProxy.read_message and write_message            *)
(*                                                                         *)
(* A stream is the sequence of bytes not yet read, with a flag telling     *)
(* whether its writer has closed it.  A read that needs more bytes than    *)
(* an open stream holds blocks.                                            *)
(***************************************************************************)

CRLF == <<"\r", "\n">>
ContentLengthName == <<"c", "o", "n", "t", "e", "n", "t", "-", "l", "e", "n", "g", "t", "h">>
ContentLengthField == <<"C", "o", "n", "t", "e", "n", "t", "-", "L", "e", "n", "g", "t", "h", ":", " ">>

Blocked == [st |-> "block"]

\* stream.readline(): up to and including the next LF; at end-of-stream, what is left.
ReadLine(buf, closed) ==
  IF Contains(buf, "\n")
  THEN Bind(CHOOSE i \in 1..Len(buf) : buf[i] = "\n" /\ \A j \in 1..(i - 1) : buf[j] # "\n",
         LAMBDA n : [st |-> "ok", data |-> SubSeq(buf, 1, n), rest |-> Drop(buf, n)])
  ELSE IF closed THEN [st |-> "ok", data |-> buf, rest |-> <<>>]
  ELSE Blocked

\* stream.read(n).  A buffered stream (sys.stdin.buffer) returns n bytes, or
\* fewer only at end-of-stream; an unbuffered one (a Popen pipe opened with
\* bufsize=0) returns what one read of the pipe gives: at least one byte, at most n.
\* A negative n reads to end-of-stream.
ReadBytes(buf, closed, n, raw) ==
  IF n < 0 THEN (IF closed THEN [st |-> "ok", data |-> buf, rest |-> <<>>] ELSE Blocked)
  ELSE IF Len(buf) >= n THEN [st |-> "ok", data |-> SubSeq(buf, 1, n), rest |-> Drop(buf, n)]
  ELSE IF closed \/ (raw /\ Len(buf) > 0) THEN [st |-> "ok", data |-> buf, rest |-> <<>>]
  ELSE Blocked

NoHeader == [has |-> FALSE]

\* One header line folded into the headers read so far; only content-length is looked up.
AddHeader(cl, line) ==
  IF ~Contains(line, ":") THEN cl
  ELSE Bind(CHOOSE i \in 1..Len(line) : line[i] = ":" /\ \A j \in 1..(i - 1) : line[j] # ":",
         LAMBDA c :
           IF Lower(Strip(SubSeq(line, 1, c - 1))) = ContentLengthName
           THEN [has |-> TRUE, v |-> Strip(Drop(line, c))]
           ELSE cl)

\* The header loop of read_message: 'eof' when a line read returns nothing,
\* 'ok' with the content-length header (if any) at the blank line.
RECURSIVE ReadHeaders(_, _, _)
ReadHeaders(buf, closed, cl) ==
  Bind(ReadLine(buf, closed), LAMBDA line :
    IF line.st = "block" THEN Blocked
    ELSE IF Len(line.data) = 0 THEN [st |-> "eof", rest |-> line.rest]
    ELSE IF line.data = CRLF THEN [st |-> "ok", cl |-> cl, rest |-> line.rest]
    ELSE Bind(AddHeader(cl, line.data), LAMBDA headers :
           ReadHeaders(line.rest, closed, headers)))

\* int(text): an optional sign and decimal digits; anything else raises ValueError.
ParseInt(text) ==
  Bind(Len(text) > 0 /\ text[1] \in {"-", "+"}, LAMBDA signed :
    Bind(IF signed THEN Tail(text) ELSE text, LAMBDA digits :
      IF ~AllDigits(digits) THEN [ok |-> FALSE]
      ELSE [ok |-> TRUE,
            n |-> IF signed /\ text[1] = "-" THEN -DigitsToNat(digits) ELSE DigitsToNat(digits)]))

\* What read_message returns: the value, what is left of the stream, and the
\* line of the return statement taken.
Returned(x, rest, line) == [st |-> "ok", val |-> x, rest |-> rest, at |-> line]

\* JsonRpcProxy.read_message(stream)
read_message(buf, closed, raw) ==
  Bind(ReadHeaders(buf, closed, NoHeader), LAMBDA h :
    IF h.st = "block" THEN Blocked
    ELSE IF h.st = "eof" THEN Returned(None, h.rest, 234)
    ELSE Bind(IF h.cl.has THEN ParseInt(h.cl.v) ELSE [ok |-> TRUE, n |-> 0], LAMBDA content_length :
      IF ~content_length.ok THEN Returned(None, h.rest, 261)
      ELSE IF content_length.n = 0 THEN Returned(None, h.rest, 245)
      ELSE Bind(ReadBytes(h.rest, closed, content_length.n, raw), LAMBDA body :
        IF body.st = "block" THEN Blocked
        ELSE IF Len(body.data) # content_length.n THEN Returned(None, body.rest, 251)
        ELSE Bind(json_loads(body.data), LAMBDA parsed :
          IF ~parsed.ok THEN Returned(None, body.rest, 258)
          ELSE Returned(parsed.val, body.rest, 254)))))

\* The bytes of the header write_message writes for a body of n bytes.
FrameHeader(n) == ContentLengthField \o IntToStr(n) \o CRLF \o CRLF

\* The bytes write_message writes for a message when nothing fails.
Frame(message) ==
  LET content_bytes == json_dumps(message)
  IN  FrameHeader(Len(content_bytes)) \o content_bytes

\* JsonRpcProxy.write_message(stream, message): the bytes the stream holds
\* afterwards.  res tells what the writes met: ok, nothing; oserror, the
\* stream has no reader and the first write raises (logged and swallowed at
\* line 284, so the caller sees the same return as for ok); interrupt, a
\* KeyboardInterrupt between the write of the header and that of the body.
write_message(out, message, res) ==
  LET content_bytes == json_dumps(message)
  IN  CASE res = "ok" -> out \o FrameHeader(Len(content_bytes)) \o content_bytes
        [] res = "oserror" -> out
        [] res = "interrupt" -> out \o FrameHeader(Len(content_bytes))

(***************************************************************************)
(* State                                                                   *)
(***************************************************************************)

VARIABLES
  HOST_ROOT,        \* module global HOST_ROOT, fixed once read from the environment
  CONTAINER_ROOT,   \* module global CONTAINER_ROOT
  pc,               \* where the main thread is
  running,          \* self.running
  proc,             \* the child process: none, running, exited (not waited for), reaped
  sig,              \* the last signal sent to the child: none, TERM, KILL
  clientIn,         \* bytes on sys.stdin not yet read
  clientClosed,     \* the client has gone: sys.stdin ends, sys.stdout has no reader
  clientSent,       \* number of frames the client has sent
  clientOut,        \* bytes written to sys.stdout
  childIn,          \* bytes written to the child's stdin
  childOut,         \* bytes on the child's stdout not yet read
  childPending,     \* the rest of a frame the child has written in part
  childSent,        \* number of frames the child has started to write
  childLog,         \* the frames the child has written or started to write, in order
  client_msg,       \* local client_msg of run
  server_response,  \* local server_response of run
  shutdownCalls,    \* number of calls of shutdown
  oplog,            \* the reads and writes run has made, in order
  tpc,              \* where the thread running forward_stderr is
  errLine,          \* local line of forward_stderr
  childErr,         \* lines on the child's stderr not yet read
  errSent,          \* number of lines the child has written to its stderr
  proxyErr,         \* lines written to sys.stderr by forward_stderr
  childRead,        \* number of bytes of childIn the child has read
  stdinPending,     \* the rest of a frame a blocked write to the child's stdin has yet to write
  stream,           \* an in-memory buffer read_message and write_message are applied to
  written,          \* the messages written to stream and not yet read back
  got,              \* what the last read_message on stream returned
  fault,            \* what kind of frame was put on stream by hand
  r_in,             \* a value given to the rewriter
  r_out,            \* r_in rewritten host -> container
  r_back,           \* r_out rewritten container -> host
  rpc               \* how far the rewriter has got with r_in

rootVars == <<HOST_ROOT, CONTAINER_ROOT>>
loopVars == <<pc, running, proc, sig, clientIn, clientClosed, clientSent, clientOut, childIn,
              childOut, childPending, childSent, childLog, client_msg, server_response, shutdownCalls,
              oplog>>
stderrVars == <<tpc, errLine, childErr, errSent, proxyErr>>
pipeVars == <<childRead, stdinPending>>
framerVars == <<stream, written, got, fault>>
rewriterVars == <<r_in, r_out, r_back, rpc>>
vars == <<rootVars, loopVars, stderrVars, pipeVars, framerVars, rewriterVars>>

(***************************************************************************)
(* Bounds and inputs                                                       *)
(***************************************************************************)

\* Frames the client sends in one run.
MaxClientMsgs == 2
\* Frames the child writes in one run.
MaxChildMsgs == 2
\* Frames held at once by the in-memory buffer.
MaxFrames == 2

S_h == <<"/", "h">>
S_c == <<"/", "c">>
S_a == <<"/", "a">>

\* (HOST_ROOT, CONTAINER_ROOT) pairs: absolute, resolved paths.  One root needs
\* percent-encoding in a URI, one is nested in the other, one is the filesystem root.
RootPairs == { <<S_h, S_c>>,
               <<S_h, <<"/", "c", " ", "d">> >>,
               << <<"/", "c", " ", "d">>, S_h>>,
               <<S_h, <<"/", "h", "/", "c">> >>,
               << <<"/", "h", "/", "c">>, S_h>>,
               << <<"/">>, S_c>>,
               <<S_c, <<"/">> >> }

\* process_message(message, direction): message.get raises AttributeError on
\* anything but a dict (ok = FALSE); otherwise the rewritten message.
process_message(message, direction) ==
  LET from_prefix == IF direction = "to_container" THEN HOST_ROOT ELSE CONTAINER_ROOT
      to_prefix == IF direction = "to_container" THEN CONTAINER_ROOT ELSE HOST_ROOT
  IN  IF ~IsDict(message) THEN [ok |-> FALSE]
      ELSE [ok |-> TRUE, val |-> rewrite_object(message, from_prefix, to_prefix)]

(***************************************************************************)
(* The proxy: JsonRpcProxy.start_server, run and shutdown, with the client *)
(* and the child process as its environment                                *)
(***************************************************************************)

\* A request and a notification of the client, as an editor sends them.
ClientRequest == JDict(<<Item(K_id, JNum(1)), Item(K_uri, JStr(FileScheme2 \o HOST_ROOT \o S_a))>>)
ClientNotification == JDict(<<Item(K_uri, JStr(HOST_ROOT \o S_a))>>)
\* A response and a notification of the child.
ChildResponse == JDict(<<Item(K_id, JNum(1)), Item(K_result, JStr(FileScheme2 \o CONTAINER_ROOT \o S_a))>>)
ChildNotification == JDict(<<Item(K_method, JStr(<<"p">>)), Item(K_uri, JStr(CONTAINER_ROOT \o S_a))>>)
\* A JSON value that is not an object.
NonDict == JList(<<JNum(1)>>)

\* What the client may put on sys.stdin: frames, and a blank line with no header before it.
ClientFrames == {Frame(ClientRequest), Frame(ClientNotification), Frame(NonDict), CRLF}
\* What the child may put on its stdout.
ChildMessages == <<ChildResponse, ChildNotification, NonDict>>

\* How many bytes of frame f the child's first write of it may carry: all of
\* them, or (for a response) all but the last.
ChildWriteSizes(f) == IF f = Frame(ChildResponse) THEN {Len(f) - 1, Len(f)} ELSE {Len(f)}

\* The read end of a pipe of the child is gone once the child has exited.
ChildGone == proc # "running"

\* One entry of oplog: the operation, the message read or given to write_message,
\* what a write met (see write_message), and for a read the line of the
\* return statement read_message took (0 for a write).
Logged(op, msg, res, at) == [op |-> op, msg |-> msg, res |-> res, at |-> at]

\* Variant of ExpectsResponse: the loop waits for the child after every message.
ExpectsResponse_Always(message) == TRUE

\* run, line 328: whether the loop goes on to read the child.
ExpectsResponse(message) == HasKey(message, K_id)

\* run, lines 319-321: None from the client breaks out of the loop.
AfterClientRead(message) == IF message = None THEN "shutdown" ELSE "forward"

\* Variant of AfterChildRead: None from the child is skipped and the loop goes on.
AfterChildRead_Continue(message) == IF message = None THEN "loop" ELSE "respond"

\* Variant of AfterChildRead: a message of the child with no id is set aside
\* and the loop reads the child again.
AfterChildRead_SkipNotifications(message) ==
  IF message = None THEN "shutdown"
  ELSE IF IsDict(message) /\ ~HasKey(message, K_id) THEN "await" ELSE "respond"

\* run, lines 331-333: None from the child breaks out of the loop.
AfterChildRead(message) == IF message = None THEN "shutdown" ELSE "respond"

LoopPcs == {"loop", "forward", "await", "respond"}
FinalPcs == {"done", "crashed", "exit1"}

\* The exit status of the process once it has ended: 1 from sys.exit(1) in
\* start_server, 0 when main returns, and that of a death by SIGINT (128 + 2
\* to a shell) when a KeyboardInterrupt is left uncaught.
ExitCode == IF pc = "exit1" THEN 1 ELSE IF pc = "done" THEN 0 ELSE 130

\* start_server: Popen succeeds and the thread that forwards the child's stderr
\* is started, or Popen raises and the process exits with code 1.
StartServer ==
  /\ pc = "start"
  /\ \/ proc' = "running" /\ tpc' = "test" /\ pc' = "loop"
     \/ proc' = "none" /\ tpc' = tpc /\ pc' = "exit1"
  /\ UNCHANGED <<rootVars, pipeVars, errLine, childErr, errSent, proxyErr, running, sig,
                 clientIn, clientClosed, clientSent, clientOut, childIn, childOut, childPending,
                 childSent, childLog, client_msg, server_response, shutdownCalls, oplog,
                 framerVars, rewriterVars>>

\* run, lines 316-321: read one message from the client; None ends the loop.
ReadClient ==
  /\ pc = "loop"
  /\ running
  /\ \E r \in {read_message(clientIn, clientClosed, FALSE)} :
         /\ r.st = "ok"
         /\ clientIn' = r.rest
         /\ client_msg' = r.val
         /\ oplog' = Append(oplog, Logged("read_client", r.val, "ok", r.at))
         /\ pc' = AfterClientRead(r.val)
  /\ UNCHANGED <<rootVars, pipeVars, stderrVars, running, proc, sig, clientClosed, clientSent,
                 clientOut, childIn, childOut, childPending, childSent, childLog,
                 server_response, shutdownCalls, framerVars, rewriterVars>>

\* run, lines 324-328: rewrite for the child, write to its stdin, and go on to
\* wait for a response when the client's message has an id.  An exception of
\* process_message is caught at line 345; an OSError of the write is swallowed
\* by write_message.
Forward ==
  /\ pc = "forward"
  /\ \E server_msg \in {process_message(client_msg, "to_container")} :
     \E res \in {IF ChildGone THEN "oserror" ELSE "ok"} :
         IF ~server_msg.ok
         THEN /\ pc' = "shutdown"
              /\ UNCHANGED <<childIn, oplog>>
         ELSE /\ childIn' = write_message(childIn, server_msg.val, res)
              /\ oplog' = Append(oplog, Logged("write_child", server_msg.val, res, 0))
              /\ pc' = IF ExpectsResponse(client_msg) THEN "await" ELSE "loop"
  /\ UNCHANGED <<rootVars, pipeVars, stderrVars, running, proc, sig, clientIn, clientClosed,
                 clientSent, clientOut, childOut, childPending, childSent, childLog, client_msg,
                 server_response, shutdownCalls, framerVars, rewriterVars>>

\* run, lines 330-333: read one message from the child; None ends the loop.
ReadChild ==
  /\ pc = "await"
  /\ \E r \in {read_message(childOut, ChildGone, TRUE)} :
         /\ r.st = "ok"
         /\ childOut' = r.rest
         /\ server_response' = r.val
         /\ oplog' = Append(oplog, Logged("read_child", r.val, "ok", r.at))
         /\ pc' = AfterChildRead(r.val)
  /\ UNCHANGED <<rootVars, pipeVars, stderrVars, running, proc, sig, clientIn, clientClosed,
                 clientSent, clientOut, childIn, childPending, childSent, childLog, client_msg,
                 shutdownCalls, framerVars, rewriterVars>>

\* run, lines 336-337: rewrite for the client and write to sys.stdout.
Respond ==
  /\ pc = "respond"
  /\ \E client_response \in {process_message(server_response, "to_host")} :
     \E res \in {IF clientClosed THEN "oserror" ELSE "ok"} :
         IF ~client_response.ok
         THEN /\ pc' = "shutdown"
              /\ UNCHANGED <<clientOut, oplog>>
         ELSE /\ clientOut' = write_message(clientOut, client_response.val, res)
              /\ oplog' = Append(oplog, Logged("write_client", client_response.val, res, 0))
              /\ pc' = "loop"
  /\ UNCHANGED <<rootVars, pipeVars, stderrVars, running, proc, sig, clientIn, clientClosed,
                 clientSent, childIn, childOut, childPending, childSent, childLog, client_msg,
                 server_response, shutdownCalls, framerVars, rewriterVars>>

\* Variant of Interrupt: the interrupt ends run with no finally clause.
Interrupt_NoFinally ==
  /\ pc \in LoopPcs
  /\ pc' = "done"
  /\ UNCHANGED <<rootVars, pipeVars, stderrVars, running, proc, sig, clientIn, clientClosed,
                 clientSent, clientOut, childIn, childOut, childPending, childSent, childLog,
                 client_msg, server_response, shutdownCalls, oplog, framerVars, rewriterVars>>

\* KeyboardInterrupt raised in the try block of run, between two writes or
\* during a blocking read: caught at line 343.
Interrupt ==
  /\ pc \in LoopPcs
  /\ pc' = "shutdown"
  /\ UNCHANGED <<rootVars, pipeVars, stderrVars, running, proc, sig, clientIn, clientClosed,
                 clientSent, clientOut, childIn, childOut, childPending, childSent, childLog,
                 client_msg, server_response, shutdownCalls, oplog, framerVars, rewriterVars>>

\* KeyboardInterrupt raised inside write_message after the header has been
\* written and before the body is: it is no Exception, so line 284 lets it pass.
InterruptInWrite ==
  /\ \/ /\ pc = "forward"
        /\ ~ChildGone
        /\ \E server_msg \in {process_message(client_msg, "to_container")} :
               /\ server_msg.ok
               /\ childIn' = write_message(childIn, server_msg.val, "interrupt")
               /\ oplog' = Append(oplog, Logged("write_child", server_msg.val, "interrupt", 0))
        /\ UNCHANGED clientOut
     \/ /\ pc = "respond"
        /\ ~clientClosed
        /\ \E client_response \in {process_message(server_response, "to_host")} :
               /\ client_response.ok
               /\ clientOut' = write_message(clientOut, client_response.val, "interrupt")
               /\ oplog' = Append(oplog, Logged("write_client", client_response.val, "interrupt", 0))
        /\ UNCHANGED childIn
  /\ pc' = "shutdown"
  /\ UNCHANGED <<rootVars, pipeVars, stderrVars, running, proc, sig, clientIn, clientClosed,
                 clientSent, childOut, childPending, childSent, childLog, client_msg,
                 server_response, shutdownCalls, framerVars, rewriterVars>>

\* shutdown, lines 352-358 (called from the finally clause of run): clear
\* running and terminate the child.  Popen.terminate polls first, which waits
\* for a child that has exited, and signals only a child that has not; the
\* signal can fail with an OSError, which line 364 catches: shutdown returns.
ShutdownTerminate ==
  /\ pc = "shutdown"
  /\ shutdownCalls' = shutdownCalls + 1
  /\ running' = FALSE
  /\ \/ /\ proc = "running" /\ sig' = "TERM" /\ proc' = proc /\ pc' = "wait5"
     \/ /\ proc # "running" /\ sig' = sig /\ proc' = "reaped" /\ pc' = "wait5"
     \/ /\ proc = "running" /\ sig' = sig /\ proc' = proc /\ pc' = "done"
  /\ UNCHANGED <<rootVars, pipeVars, stderrVars, clientIn, clientClosed, clientSent, clientOut,
                 childIn, childOut, childPending, childSent, childLog, client_msg,
                 server_response, oplog, framerVars, rewriterVars>>

\* shutdown, line 359: child.wait(timeout=5) returns once the child has exited,
\* or raises TimeoutExpired.
ShutdownWait ==
  /\ pc = "wait5"
  /\ IF proc = "running" THEN pc' = "kill" /\ proc' = proc
     ELSE pc' = "done" /\ proc' = "reaped"
  /\ UNCHANGED <<rootVars, pipeVars, stderrVars, running, sig, clientIn, clientClosed,
                 clientSent, clientOut, childIn, childOut, childPending, childSent, childLog,
                 client_msg, server_response, shutdownCalls, oplog, framerVars, rewriterVars>>

\* shutdown, line 362: child.kill().
ShutdownKill ==
  /\ pc = "kill"
  /\ sig' = IF proc = "running" THEN "KILL" ELSE sig
  /\ pc' = "wait"
  /\ UNCHANGED <<rootVars, pipeVars, stderrVars, running, proc, clientIn, clientClosed,
                 clientSent, clientOut, childIn, childOut, childPending, childSent, childLog,
                 client_msg, server_response, shutdownCalls, oplog, framerVars, rewriterVars>>

\* shutdown, line 363: child.wait() returns once the child has exited.
ShutdownWaitKilled ==
  /\ pc = "wait"
  /\ proc # "running"
  /\ proc' = "reaped"
  /\ pc' = "done"
  /\ UNCHANGED <<rootVars, pipeVars, stderrVars, running, sig, clientIn, clientClosed,
                 clientSent, clientOut, childIn, childOut, childPending, childSent, childLog,
                 client_msg, server_response, shutdownCalls, oplog, framerVars, rewriterVars>>

\* KeyboardInterrupt raised while shutdown waits: nothing catches it, and it
\* leaves run through the finally clause.
InterruptShutdown ==
  /\ pc \in {"wait5", "wait"}
  /\ pc' = "crashed"
  /\ UNCHANGED <<rootVars, pipeVars, stderrVars, running, proc, sig, clientIn, clientClosed,
                 clientSent, clientOut, childIn, childOut, childPending, childSent, childLog,
                 client_msg, server_response, shutdownCalls, oplog, framerVars, rewriterVars>>

\* The client writes one frame to the proxy's stdin.  (The client and what the
\* child writes are followed while the loop runs: nothing reads them afterwards.)
ClientSend ==
  /\ pc \in LoopPcs
  /\ ~clientClosed
  /\ clientSent < MaxClientMsgs
  /\ \E f \in ClientFrames : clientIn' = clientIn \o f
  /\ clientSent' = clientSent + 1
  /\ UNCHANGED <<rootVars, pipeVars, stderrVars, pc, running, proc, sig, clientClosed,
                 clientOut, childIn, childOut, childPending, childSent, childLog, client_msg,
                 server_response, shutdownCalls, oplog, framerVars, rewriterVars>>

\* The client exits: the proxy's stdin ends and its stdout loses its reader.
ClientClose ==
  /\ pc \in LoopPcs
  /\ ~clientClosed
  /\ clientClosed' = TRUE
  /\ UNCHANGED <<rootVars, pipeVars, stderrVars, pc, running, proc, sig, clientIn, clientSent,
                 clientOut, childIn, childOut, childPending, childSent, childLog, client_msg,
                 server_response, shutdownCalls, oplog, framerVars, rewriterVars>>

\* The child writes a frame to its stdout: in one write, or all but the last
\* byte now and that byte in a later write.
ChildWrite ==
  /\ pc \in LoopPcs
  /\ proc = "running"
  /\ childPending = <<>>
  /\ childSent < MaxChildMsgs
  /\ \E i \in 1..Len(ChildMessages) : \E f \in {Frame(ChildMessages[i])} :
     \E n \in ChildWriteSizes(f) :
       /\ childOut' = childOut \o SubSeq(f, 1, n)
       /\ childPending' = Drop(f, n)
       /\ childLog' = Append(childLog, f)
  /\ childSent' = childSent + 1
  /\ UNCHANGED <<rootVars, pipeVars, stderrVars, pc, running, proc, sig, clientIn, clientClosed,
                 clientSent, clientOut, childIn, client_msg, server_response, shutdownCalls,
                 oplog, framerVars, rewriterVars>>

\* The child writes the rest of a frame it has written in part.
ChildWriteRest ==
  /\ pc \in LoopPcs
  /\ proc = "running"
  /\ childPending # <<>>
  /\ childOut' = childOut \o childPending
  /\ childPending' = <<>>
  /\ UNCHANGED <<rootVars, pipeVars, stderrVars, pc, running, proc, sig, clientIn, clientClosed,
                 clientSent, clientOut, childIn, childSent, childLog, client_msg,
                 server_response, shutdownCalls, oplog, framerVars, rewriterVars>>

\* The child exits, of its own accord or on a signal: its pipes close.
ChildExit ==
  /\ proc = "running"
  /\ proc' = "exited"
  /\ childPending' = <<>>
  /\ UNCHANGED <<rootVars, pipeVars, stderrVars, pc, running, sig, clientIn, clientClosed,
                 clientSent, clientOut, childIn, childOut, childSent, childLog, client_msg,
                 server_response, shutdownCalls, oplog, framerVars, rewriterVars>>

\* The steps of the main thread.
ProxyStep ==
  \/ StartServer
  \/ ReadClient
  \/ Forward
  \/ ReadChild
  \/ Respond
  \/ ShutdownTerminate
  \/ ShutdownWait
  \/ ShutdownKill
  \/ ShutdownWaitKilled

\* A killed child exits.
ChildDies == sig = "KILL" /\ ChildExit

\* The proxy before start_server has run.
LoopInit ==
  /\ pc = "start"
  /\ running = TRUE
  /\ proc = "none"
  /\ sig = "none"
  /\ clientIn = <<>>
  /\ clientClosed = FALSE
  /\ clientSent = 0
  /\ clientOut = <<>>
  /\ childIn = <<>>
  /\ childOut = <<>>
  /\ childPending = <<>>
  /\ childSent = 0
  /\ childLog = <<>>
  /\ client_msg = None
  /\ server_response = None
  /\ shutdownCalls = 0
  /\ oplog = <<>>

\* The thread of forward_stderr not started, nothing on the child's stderr.
StderrInit ==
  /\ tpc = "none"
  /\ errLine = 0
  /\ childErr = <<>>
  /\ errSent = 0
  /\ proxyErr = <<>>

\* The child has read nothing, and no write to its stdin is under way.
PipeInit ==
  /\ childRead = 0
  /\ stdinPending = <<>>

\* The in-memory buffer, empty; nothing read from it yet.
FramerInit ==
  /\ stream = <<>>
  /\ written = <<>>
  /\ got = [st |-> "none"]
  /\ fault = "none"

\* The rewriter with no input.
RewriterIdle ==
  /\ r_in = None
  /\ r_out = None
  /\ r_back = None
  /\ rpc = "idle"

Init ==
  /\ HOST_ROOT = S_h
  /\ CONTAINER_ROOT = S_c
  /\ LoopInit
  /\ StderrInit
  /\ PipeInit
  /\ FramerInit
  /\ RewriterIdle

Next ==
  \/ StartServer
  \/ ReadClient
  \/ Forward
  \/ ReadChild
  \/ Respond
  \/ Interrupt
  \/ InterruptInWrite
  \/ ShutdownTerminate
  \/ ShutdownWait
  \/ ShutdownKill
  \/ ShutdownWaitKilled
  \/ InterruptShutdown
  \/ ClientSend
  \/ ClientClose
  \/ ChildWrite
  \/ ChildWriteRest
  \/ ChildExit

Spec == Init /\ [][Next]_vars

\* The main thread keeps running while it has a step to take, and a child that
\* has been sent SIGKILL exits.
FairSpec == Spec /\ WF_vars(ProxyStep) /\ WF_vars(ChildDies)

(***************************************************************************)
(* The thread of forward_stderr, running beside start_server's caller, run *)
(* and shutdown; the client sends nothing                                  *)
(***************************************************************************)

\* Lines the child writes to its stderr in one run; line k is the k-th written.
MaxErrLines == 2

\* forward_stderr, line 208: the while condition.  self.child and
\* self.child.stderr are set before the thread starts and never cleared.
ThreadTest ==
  /\ tpc = "test"
  /\ tpc' = IF running THEN "readline" ELSE "end"
  /\ UNCHANGED <<rootVars, pipeVars, loopVars, errLine, childErr, errSent, proxyErr, framerVars,
                 rewriterVars>>

\* forward_stderr, lines 209-211: readline returns the next line, or nothing
\* once the child has exited and the pipe is empty; until then it blocks.
ThreadReadline ==
  /\ tpc = "readline"
  /\ \/ /\ childErr # <<>>
        /\ errLine' = Head(childErr)
        /\ childErr' = Tail(childErr)
        /\ tpc' = "write"
     \/ /\ childErr = <<>>
        /\ ChildGone
        /\ tpc' = "end"
        /\ UNCHANGED <<errLine, childErr>>
  /\ UNCHANGED <<rootVars, pipeVars, loopVars, errSent, proxyErr, framerVars, rewriterVars>>

\* forward_stderr, lines 212-213: write the line to sys.stderr and flush.
ThreadWrite ==
  /\ tpc = "write"
  /\ proxyErr' = Append(proxyErr, errLine)
  /\ tpc' = "test"
  /\ UNCHANGED <<rootVars, pipeVars, loopVars, errLine, childErr, errSent, framerVars,
                 rewriterVars>>

\* start_server, line 198: the thread is a daemon; it ends where it is when
\* the main thread has ended and the interpreter exits.
ProcessExit ==
  /\ pc \in {"done", "crashed"}
  /\ tpc \in {"test", "readline", "write"}
  /\ tpc' = "killed"
  /\ UNCHANGED <<rootVars, pipeVars, loopVars, errLine, childErr, errSent, proxyErr, framerVars,
                 rewriterVars>>

\* The child writes a line to its stderr, at any time until it exits.
ChildErrWrite ==
  /\ proc = "running"
  /\ errSent < MaxErrLines
  /\ errSent' = errSent + 1
  /\ childErr' = Append(childErr, errSent + 1)
  /\ UNCHANGED <<rootVars, pipeVars, loopVars, tpc, errLine, proxyErr, framerVars, rewriterVars>>

StderrNext ==
  \/ StartServer
  \/ ReadClient
  \/ Interrupt
  \/ ShutdownTerminate
  \/ ShutdownWait
  \/ ShutdownKill
  \/ ShutdownWaitKilled
  \/ InterruptShutdown
  \/ ClientClose
  \/ ChildExit
  \/ ChildErrWrite
  \/ ThreadTest
  \/ ThreadReadline
  \/ ThreadWrite
  \/ ProcessExit

StderrSpec == Init /\ [][StderrNext]_vars

(***************************************************************************)
(* The loop and the child with pipes of finite capacity between them: a    *)
(* write blocks while the pipe is full, and writes what fits               *)
(***************************************************************************)

\* Bytes a pipe holds (a Linux pipe holds 65536): room for one frame of the
\* messages here, not for two frames of the client nor for two of the child.
PipeCap == 64

\* Bytes written to the child's stdin that the child has not read.
StdinFill == Len(childIn) - childRead

\* run, lines 324-328, with write_message blocking in stream.write (lines 278
\* and 281) while the child's stdin is full: the write puts what fits on the
\* pipe and returns once the whole frame is there.
PipeForward ==
  /\ pc = "forward"
  /\ proc = "running"
  /\ \E server_msg \in {process_message(client_msg, "to_container")} :
       IF ~server_msg.ok
       THEN /\ pc' = "shutdown"
            /\ UNCHANGED <<childIn, stdinPending, oplog>>
       ELSE /\ StdinFill < PipeCap
            /\ \E bytes \in {IF stdinPending = <<>> THEN Frame(server_msg.val) ELSE stdinPending} :
               \E n \in {IF Len(bytes) < PipeCap - StdinFill THEN Len(bytes) ELSE PipeCap - StdinFill} :
                 /\ childIn' = childIn \o Take(bytes, n)
                 /\ stdinPending' = Drop(bytes, n)
                 /\ IF n = Len(bytes)
                    THEN /\ oplog' = Append(oplog, Logged("write_child", server_msg.val, "ok", 0))
                         /\ pc' = IF ExpectsResponse(client_msg) THEN "await" ELSE "loop"
                    ELSE UNCHANGED <<oplog, pc>>
  /\ UNCHANGED <<rootVars, stderrVars, childRead, running, proc, sig, clientIn, clientClosed,
                 clientSent, clientOut, childOut, childPending, childSent, childLog, client_msg,
                 server_response, shutdownCalls, framerVars, rewriterVars>>

\* The child writes a frame to its stdout: what fits on the pipe now, the rest
\* once the proxy has read.
PipeChildWrite ==
  /\ pc \in LoopPcs
  /\ proc = "running"
  /\ childPending = <<>>
  /\ childSent < MaxChildMsgs
  /\ Len(childOut) < PipeCap
  /\ \E i \in 1..Len(ChildMessages) : \E f \in {Frame(ChildMessages[i])} :
     \E n \in {IF Len(f) < PipeCap - Len(childOut) THEN Len(f) ELSE PipeCap - Len(childOut)} :
       /\ childOut' = childOut \o Take(f, n)
       /\ childPending' = Drop(f, n)
       /\ childLog' = Append(childLog, f)
  /\ childSent' = childSent + 1
  /\ UNCHANGED <<rootVars, pipeVars, stderrVars, pc, running, proc, sig, clientIn, clientClosed,
                 clientSent, clientOut, childIn, client_msg, server_response, shutdownCalls,
                 oplog, framerVars, rewriterVars>>

\* The child, blocked in a write to its stdout, writes more of the frame once
\* the pipe has room.
PipeChildWriteRest ==
  /\ pc \in LoopPcs
  /\ proc = "running"
  /\ childPending # <<>>
  /\ Len(childOut) < PipeCap
  /\ \E n \in {IF Len(childPending) < PipeCap - Len(childOut) THEN Len(childPending)
                ELSE PipeCap - Len(childOut)} :
       /\ childOut' = childOut \o Take(childPending, n)
       /\ childPending' = Drop(childPending, n)
  /\ UNCHANGED <<rootVars, pipeVars, stderrVars, pc, running, proc, sig, clientIn, clientClosed,
                 clientSent, clientOut, childIn, childSent, childLog, client_msg,
                 server_response, shutdownCalls, oplog, framerVars, rewriterVars>>

\* The child reads what is on its stdin, when it is not blocked in a write.
ChildRead ==
  /\ proc = "running"
  /\ childPending = <<>>
  /\ StdinFill > 0
  /\ childRead' = Len(childIn)
  /\ UNCHANGED <<rootVars, stderrVars, stdinPending, loopVars, framerVars, rewriterVars>>

PipeNext ==
  \/ StartServer
  \/ ClientSend
  \/ ReadClient
  \/ PipeForward
  \/ ReadChild
  \/ Respond
  \/ PipeChildWrite
  \/ PipeChildWriteRest
  \/ ChildRead

PipeSpec == Init /\ [][PipeNext]_vars

(***************************************************************************)
(* The framer alone: write_message and read_message applied to an          *)
(* in-memory buffer (a read at its end returns no bytes and never blocks)  *)
(***************************************************************************)

\* Messages of every kind of the data model, with strings that need escaping
\* and containers nested in containers.
FramerMessages ==
  << JNull, JBool(TRUE), JBool(FALSE), JNum(0), JNum(-7), JNum(120),
    JStr(<<>>), JStr(<<"a", QUOTE, BACKSLASH, "n">>), JStr(<<"/", " ", "\n", "\t", "}">>),
    JList(<<>>), JList(<<JNull, JList(<<JNum(1), JStr(<<",">>)>>), JDict(<<>>)>>),
    JDict(<<>>),
    JDict(<<Item(K_id, JNum(1)), Item(<<>>, JList(<<JBool(TRUE)>>)),
            Item(<<"a", ":">>, JDict(<<Item(K_uri, JStr(<<"[">>))>>))>>) >>

\* Byte strings that are no frame, by what is wrong with them.
MalformedKinds == {"no_length", "zero_length", "short_body", "bad_json"}
BadFrames ==
  { [kind |-> "no_length", bytes |-> CRLF],
    [kind |-> "no_length", bytes |-> <<"X", ":", "1">> \o CRLF \o CRLF],
    [kind |-> "zero_length", bytes |-> FrameHeader(0)],
    [kind |-> "short_body", bytes |-> FrameHeader(5) \o <<"{", "}">>],
    [kind |-> "bad_json", bytes |-> FrameHeader(2) \o <<"{", "x">>],
    [kind |-> "bad_length", bytes |-> ContentLengthField \o <<"x">> \o CRLF \o CRLF],
    [kind |-> "eof_in_header", bytes |-> ContentLengthField \o <<"5">>] }

\* The frames of a sequence of messages, one after the other.
RECURSIVE FramesOf(_)
FramesOf(ms) == IF Len(ms) = 0 THEN <<>> ELSE Frame(Head(ms)) \o FramesOf(Tail(ms))

\* write_message(stream, m) on the buffer.
FWrite ==
  /\ fault = "none"
  /\ Len(written) < MaxFrames
  /\ \E i \in 1..Len(FramerMessages) :
       /\ stream' = write_message(stream, FramerMessages[i], "ok")
       /\ written' = Append(written, FramerMessages[i])
  /\ got' = [st |-> "none"]
  /\ UNCHANGED <<rootVars, pipeVars, stderrVars, loopVars, fault, rewriterVars>>

\* Bytes that are no frame are put on the empty buffer.
PutBad ==
  /\ fault = "none"
  /\ stream = <<>>
  /\ \E b \in BadFrames :
       /\ stream' = b.bytes
       /\ fault' = b.kind
  /\ got' = [st |-> "none"]
  /\ UNCHANGED <<rootVars, pipeVars, stderrVars, loopVars, written, rewriterVars>>

\* read_message(stream) on the buffer; got keeps what it returned and of what.
FRead ==
  /\ \E r \in {read_message(stream, TRUE, FALSE)} :
       /\ r.st = "ok"
       /\ stream' = r.rest
       /\ got' = [st |-> "ok", val |-> r.val, at |-> r.at, of |-> fault]
  /\ written' = IF written = <<>> THEN <<>> ELSE Tail(written)
  /\ fault' = "none"
  /\ UNCHANGED <<rootVars, pipeVars, stderrVars, loopVars, rewriterVars>>

FramerNext ==
  \/ FWrite
  \/ PutBad
  \/ FRead

FramerSpec == Init /\ [][FramerNext]_vars

(***************************************************************************)
(* The rewriter alone: a value rewritten host -> container, and the result *)
(* rewritten container -> host                                             *)
(***************************************************************************)

\* The path of entry `name` of directory `root`.
Under(root, name) == IF root = <<"/">> THEN root \o name ELSE root \o <<"/">> \o name

\* Strings given to rewrite_path: paths and file URIs under HOST_ROOT (one with
\* a space, raw and percent-encoded), HOST_ROOT itself, a sibling of HOST_ROOT
\* sharing its characters, a path elsewhere, text that is no path, and file URIs
\* with a host part, of a path elsewhere, and with two slashes only.
PathInputs ==
  << JStr(Under(HOST_ROOT, <<"a">>)),
     JStr(HOST_ROOT),
     JStr(HOST_ROOT \o <<"x">>),
     JStr(FileScheme2 \o Under(HOST_ROOT, <<"a">>)),
     JStr(FileScheme2 \o Under(HOST_ROOT, <<"a", " ", "b">>)),
     JStr(FileScheme2 \o encode_uri_component(Under(HOST_ROOT, <<"a", " ", "b">>))),
     JStr(<<"/", "x", "/", "a">>),
     JStr(<<"r", "1">>),
     JStr(FileScheme2 \o <<"x">> \o Under(HOST_ROOT, <<"a">>)),
     JStr(FileScheme3 \o <<"x", "/", "a">>),
     JStr(FileScheme2 \o Tail(Under(HOST_ROOT, <<"a">>))) >>

\* Messages given to process_message.
MessageInputs ==
  << JDict(<<Item(K_uri, PathInputs[4])>>),
     JDict(<<Item(<<"x">>, PathInputs[1])>>),
     JDict(<<Item(<<"x">>, PathInputs[4])>>),
     JDict(<<Item(K_id, JNum(1)), Item(K_uri, PathInputs[4])>>),
     JDict(<<Item(K_id, PathInputs[8]), Item(K_method, JStr(<<"m">>))>>),
     JDict(<<Item(K_id, PathInputs[1]), Item(K_method, JStr(<<"m">>))>>),
     JDict(<<Item(K_id, PathInputs[4]), Item(K_result, JNull)>>),
     JDict(<<Item(K_workspaceFolders,
                  JList(<<JDict(<<Item(K_uri, PathInputs[4]), Item(K_name, JStr(<<"a">>))>>)>>))>>),
     JDict(<<Item(K_workspaceFolders,
                  JList(<<JDict(<<Item(K_uri, PathInputs[4]), Item(K_name, PathInputs[1])>>),
                          JDict(<<Item(K_uri, PathInputs[2]), Item(K_name, PathInputs[4])>>)>>))>>),
     NonDict,
     JDict(<<Item(K_uri, PathInputs[8]),
             Item(<<"p", "a", "t", "h">>,
                  JList(<<JStr(<<"x">>), JNum(1), JDict(<<Item(<<"f", "i", "l", "e">>, PathInputs[7])>>)>>)),
             Item(<<"n">>, JNum(1)), Item(<<"b">>, JBool(TRUE)), Item(<<"z">>, JNull),
             Item(K_workspaceFolders,
                  JList(<<JDict(<<Item(K_uri, PathInputs[7]), Item(K_name, JStr(<<"a">>))>>)>>)),
             Item(<<"l">>, JList(<<JList(<<JStr(<<" ">>)>>)>>))>>),
     JDict(<<Item(PathInputs[1].v, JStr(<<"x">>)), Item(PathInputs[4].v, JNum(1))>>),
     JDict(<<Item(<<"p", "a", "t", "h">>,
                  JList(<<PathInputs[1], JNum(2), JList(<<PathInputs[1]>>),
                          JDict(<<Item(<<"q">>, PathInputs[1])>>)>>)),
             Item(<<"t", "a", "r", "g", "e", "t", "R", "a", "n", "g", "e">>,
                  JDict(<<Item(<<"q">>, PathInputs[4])>>)),
             Item(<<"o">>, JList(<<PathInputs[1], PathInputs[4], PathInputs[7]>>))>>) >>

RewriterInputs == PathInputs \o MessageInputs

\* A value is given to the rewriter.
RTake ==
  /\ rpc \in {"idle", "back", "raised"}
  /\ \E i \in 1..Len(RewriterInputs) : r_in' = RewriterInputs[i]
  /\ r_out' = None
  /\ r_back' = None
  /\ rpc' = "in"
  /\ UNCHANGED <<rootVars, pipeVars, stderrVars, loopVars, framerVars>>

\* rewrite_path(value, HOST_ROOT, CONTAINER_ROOT)
RewritePathToContainer ==
  /\ rpc = "in"
  /\ IsStr(r_in)
  /\ r_out' = rewrite_path(r_in, HOST_ROOT, CONTAINER_ROOT)
  /\ rpc' = "out"
  /\ UNCHANGED <<rootVars, pipeVars, stderrVars, loopVars, framerVars, r_in, r_back>>

\* rewrite_path(value, CONTAINER_ROOT, HOST_ROOT) of the result.
RewritePathToHost ==
  /\ rpc = "out"
  /\ IsStr(r_in)
  /\ r_back' = rewrite_path(r_out, CONTAINER_ROOT, HOST_ROOT)
  /\ rpc' = "back"
  /\ UNCHANGED <<rootVars, pipeVars, stderrVars, loopVars, framerVars, r_in, r_out>>

\* process_message(message, 'to_container'); it raises on a message that is no dict.
ProcessToContainer ==
  /\ rpc = "in"
  /\ ~IsStr(r_in)
  /\ \E server_msg \in {process_message(r_in, "to_container")} :
       IF server_msg.ok
       THEN r_out' = server_msg.val /\ rpc' = "out"
       ELSE r_out' = r_out /\ rpc' = "raised"
  /\ UNCHANGED <<rootVars, pipeVars, stderrVars, loopVars, framerVars, r_in, r_back>>

\* process_message(message, 'to_host') of the result.
ProcessToHost ==
  /\ rpc = "out"
  /\ ~IsStr(r_in)
  /\ \E client_response \in {process_message(r_out, "to_host")} :
       /\ client_response.ok
       /\ r_back' = client_response.val
  /\ rpc' = "back"
  /\ UNCHANGED <<rootVars, pipeVars, stderrVars, loopVars, framerVars, r_in, r_out>>

\* The roots are whatever the environment gave.
RewriteInit ==
  /\ \E roots \in RootPairs : HOST_ROOT = roots[1] /\ CONTAINER_ROOT = roots[2]
  /\ LoopInit
  /\ StderrInit
  /\ PipeInit
  /\ FramerInit
  /\ RewriterIdle

RewriteNext ==
  \/ RTake
  \/ RewritePathToContainer
  \/ RewritePathToHost
  \/ ProcessToContainer
  \/ ProcessToHost

RewriteSpec == RewriteInit /\ [][RewriteNext]_vars

(***************************************************************************)
(* Properties of the proxy loop                                            *)
(***************************************************************************)

\* The operations run made after the client read at oplog[i] and before the
\* next client read (or up to now).
OpsAfterRead(i) ==
  LET later == {j \in (i + 1)..Len(oplog) : oplog[j].op = "read_client"}
      next == IF later = {} THEN Len(oplog) + 1
              ELSE CHOOSE j \in later : \A k \in later : j <= k
  IN  SubSeq(oplog, i + 1, next - 1)

\* Whether the iteration begun by the client read at oplog[i] is over: the
\* loop has read the client again, or is about to.
IterationOver(i) ==
  \/ \E j \in (i + 1)..Len(oplog) : oplog[j].op = "read_client"
  \/ pc = "loop"

\* The child's stdout has ended: the child is gone and nothing is left to read.
ChildEof == ChildGone /\ childOut = <<>>

PastLoopPcs == {"wait5", "kill", "wait", "done", "crashed"}

\* C1: in run, between reading a client message that it forwards and reading
\* the next client message, the loop does the following and nothing else: it
\* writes the ToServer rewrite of the message to the child; then, if the
\* message has an id, it reads exactly one message from the child and gives
\* the ToClient rewrite of that message to write_message for the client; if
\* the message has no id it reads nothing from the child.
C1_RequestPairedNotificationNot ==
  \A i \in 1..Len(oplog) :
    (oplog[i].op = "read_client" /\ IterationOver(i)) =>
      LET m == oplog[i].msg
          ops == OpsAfterRead(i)
      IN  /\ IsDict(m)
          /\ Len(ops) = IF HasKey(m, K_id) THEN 3 ELSE 1
          /\ ops[1].op = "write_child"
          /\ ops[1].msg = rewrite_object(m, HOST_ROOT, CONTAINER_ROOT)
          /\ HasKey(m, K_id) =>
               /\ ops[2].op = "read_child"
               /\ ops[2].at = 254
               /\ ops[3].op = "write_client"
               /\ ops[3].msg = rewrite_object(ops[2].msg, CONTAINER_ROOT, HOST_ROOT)

\* A request was forwarded and answered, then a notification was forwarded,
\* and the loop is back at reading the client.
C1_Witness ==
  /\ pc = "loop"
  /\ Len(oplog) = 6
  /\ oplog[1].op = "read_client" /\ HasKey(oplog[1].msg, K_id)
  /\ oplog[3].op = "read_child"
  /\ oplog[4].op = "write_client" /\ oplog[4].res = "ok"
  /\ oplog[5].op = "read_client" /\ ~HasKey(oplog[5].msg, K_id)
  /\ oplog[6].op = "write_child"

\* C2: when the child's stdout is at end-of-stream while the loop waits for a
\* response, the next step of the loop leaves for shutdown; nothing is written
\* to the client then or later; and the run ends with shutdown called.
C2_ChildEofStopsLoop ==
  /\ [][(pc = "await" /\ ChildEof /\ pc' # pc) => (pc' = "shutdown" /\ clientOut' = clientOut)]_vars
  /\ [][pc \notin LoopPcs => clientOut' = clientOut]_vars
  /\ (pc = "await" /\ ChildEof) ~> (pc \in {"done", "crashed"} /\ shutdownCalls = 1 /\ ~running)

\* The loop read end-of-stream from the child after forwarding a request, and
\* shutdown has returned.
C2_Witness ==
  /\ pc = "done"
  /\ Len(oplog) = 3
  /\ oplog[1].op = "read_client" /\ HasKey(oplog[1].msg, K_id)
  /\ oplog[3].op = "read_child" /\ oplog[3].at = 234
  /\ clientOut = <<>>

\* C3: the loop is left only for the finally clause, whatever ends it; the
\* finally clause calls shutdown; shutdown is called once in a run; and once
\* it has been called run reads and writes no stream.
C3_ShutdownExactlyOnce ==
  /\ [][(pc \in LoopPcs /\ pc' \notin LoopPcs) => pc' = "shutdown"]_vars
  /\ [][(pc = "shutdown" /\ pc' # pc) => shutdownCalls' = 1]_vars
  /\ [](pc \in LoopPcs \cup {"shutdown"} => shutdownCalls = 0)
  /\ [](pc \in PastLoopPcs => shutdownCalls = 1)
  /\ [][shutdownCalls >= 1 =>
          /\ oplog' = oplog
          /\ clientIn' = clientIn /\ clientOut' = clientOut
          /\ childIn' = childIn /\ childOut' = childOut
          /\ pc' \notin LoopPcs]_vars

\* The loop ended on an exception (a client message that is no object) and
\* shutdown has been called and has returned.
C3_Witness ==
  /\ pc = "done"
  /\ shutdownCalls = 1
  /\ Len(oplog) = 1
  /\ oplog[1].op = "read_client" /\ oplog[1].msg = NonDict

\* C4: when shutdown has returned the child has exited and been waited for,
\* and SIGKILL is sent only after the timed wait has run out.
C4_ShutdownLeavesChildStopped ==
  /\ pc = "done" => proc = "reaped"
  /\ sig = "KILL" => pc \in {"wait", "done", "crashed"}

\* C5: after a write that failed with an OSError the loop makes no further
\* read or write and is on its way to shutdown.
C5_WriteErrorStopsLoop ==
  \A i \in 1..Len(oplog) :
    oplog[i].res = "oserror" => (i = Len(oplog) /\ pc \notin LoopPcs)

\* What read_message returns at end-of-stream.
EndOfStreamValue == read_message(<<>>, TRUE, FALSE).val

\* C6: what read_message returns for a malformed frame (no or zero
\* Content-Length, a body shorter than declared, a body that does not parse)
\* differs from what it returns at end-of-stream.
C6_FramingErrorDistinctFromEof ==
  (got.st = "ok" /\ got.of \in MalformedKinds) => got.val # EndOfStreamValue

\* C7: read_message on a buffer holding the frames write_message wrote
\* returns the first message written and not yet read, through the return at
\* line 254, and takes exactly the bytes of that frame off the buffer; the
\* buffer always holds exactly the frames of the messages not yet read.
C7_FramerRoundTrip ==
  /\ [][(fault = "none" /\ written # <<>> /\ written' = Tail(written)) =>
          /\ got'.st = "ok"
          /\ got'.val = Head(written)
          /\ got'.at = 254
          /\ stream' = Drop(stream, Len(Frame(Head(written))))]_vars
  /\ [](fault = "none" => stream = FramesOf(written))

\* A string with a quote and a backslash has been written and read back,
\* with a frame written after it still on the buffer.
C7_Witness ==
  /\ got.st = "ok"
  /\ got.of = "none"
  /\ IsStr(got.val)
  /\ got.val.v = <<"a", QUOTE, BACKSLASH, "n">>
  /\ Len(written) = 1
  /\ stream = Frame(written[1])

(***************************************************************************)
(* Properties of the rewriter                                              *)
(***************************************************************************)

\* A path string the round trip is claimed for: a plain path starting with
\* from_prefix, or a file URI whose path starts with from_prefix and is left
\* as it is by percent-encoding.
CoveredPath(p, from_prefix) ==
  IF StartsWith(p, FileScheme2)
  THEN /\ StartsWith(Drop(p, Len(FileScheme2)), from_prefix)
       /\ encode_uri_component(Drop(p, Len(FileScheme2))) = Drop(p, Len(FileScheme2))
  ELSE StartsWith(p, from_prefix)

\* C8: a covered path string rewritten host -> container and then container ->
\* host is the string it was, given to rewrite_path itself or to
\* process_message as the one value of a message.
C8_RewriteRoundTrip ==
  rpc = "back" =>
    /\ (IsStr(r_in) /\ CoveredPath(r_in.v, HOST_ROOT)) => r_back = r_in
    /\ (IsDict(r_in) /\ Len(r_in.v) = 1 /\ IsStr(r_in.v[1].v)
           /\ CoveredPath(r_in.v[1].v.v, HOST_ROOT)) => r_back = r_in

\* A file URI under HOST_ROOT went to a container root with a space in it
\* (percent-encoded on the way) and came back.
C8_Witness ==
  /\ rpc = "back"
  /\ IsStr(r_in)
  /\ CONTAINER_ROOT = <<"/", "c", " ", "d">>
  /\ r_in.v = FileScheme2 \o HOST_ROOT \o S_a
  /\ r_out.v = FileScheme2 \o <<"/", "c", "%", "2", "0", "d">> \o S_a
  /\ r_back = r_in

\* C9: the value under 'id' of a message is the same after process_message,
\* in both directions.
C9_IdUnchanged ==
  (rpc \in {"out", "back"} /\ IsDict(r_in) /\ HasKey(r_in, K_id)) =>
    /\ Get(r_out, K_id) = Get(r_in, K_id)
    /\ rpc = "back" => Get(r_back, K_id) = Get(r_out, K_id)

\* The elements of the list under 'workspaceFolders' of a message.
Folders(message) == Get(message, K_workspaceFolders).v

\* C10: every 'name' in a workspaceFolders list is the same after rewrite_object.
C10_FolderNameUnchanged ==
  (rpc \in {"out", "back"} /\ IsDict(r_in) /\ HasKey(r_in, K_workspaceFolders)) =>
    \A i \in 1..Len(Folders(r_in)) :
      Get(Folders(r_out)[i], K_name) = Get(Folders(r_in)[i], K_name)

RECURSIVE Unrelated(_, _)
Unrelated(m, prefix) ==
  IF IsStr(m) THEN ~StartsWith(m.v, prefix) /\ ~StartsWith(m.v, FileScheme2)
  ELSE IF IsList(m) THEN \A i \in 1..Len(m.v) : Unrelated(m.v[i], prefix)
  ELSE IF IsDict(m) THEN \A i \in 1..Len(m.v) : Unrelated(m.v[i].v, prefix)
  ELSE TRUE

\* C12: a message with no string value starting with the from-prefix or with
\* 'file://' comes out of the rewrite equal to itself, in either direction,
\* and the input is what it was.
C12_IdentityOnUnrelated ==
  /\ [](rpc \in {"out", "back"} /\ Unrelated(r_in, HOST_ROOT) => r_out = r_in)
  /\ [](rpc = "back" /\ Unrelated(r_out, CONTAINER_ROOT) => r_back = r_out)
  /\ [][(rpc \in {"in", "out"}) => UNCHANGED r_in]_vars

\* A message with strings, numbers and containers under path keys and other
\* keys, none of them path-like, has been rewritten.
C12_Witness ==
  /\ rpc = "out"
  /\ IsDict(r_in)
  /\ Len(r_in.v) = 7
  /\ Unrelated(r_in, HOST_ROOT)
  /\ r_out = r_in

\* m with rewrite_path applied to every string value at every depth; keys,
\* other scalars and structure as they are.
RECURSIVE MapStrings(_, _, _)
MapStrings(m, from_prefix, to_prefix) ==
  IF IsStr(m) THEN rewrite_path(m, from_prefix, to_prefix)
  ELSE IF IsList(m) THEN JList([i \in 1..Len(m.v) |-> MapStrings(m.v[i], from_prefix, to_prefix)])
  ELSE IF IsDict(m) THEN
    JDict([i \in 1..Len(m.v) |-> Item(m.v[i].k, MapStrings(m.v[i].v, from_prefix, to_prefix))])
  ELSE m

\* C19: the rewrite of a message is the message with rewrite_path applied to
\* every string value at every depth, whatever the keys are, in either
\* direction; keys are not rewritten.
C19_KeyNamesDoNotMatter ==
  /\ (rpc \in {"out", "back"} /\ ~IsStr(r_in)) =>
        r_out = MapStrings(r_in, HOST_ROOT, CONTAINER_ROOT)
  /\ (rpc = "back" /\ ~IsStr(r_in)) =>
        r_back = MapStrings(r_out, CONTAINER_ROOT, HOST_ROOT)

\* A message with paths under a path key, under other keys and in nested
\* lists has been rewritten, every one of them changed.
C19_Witness ==
  /\ rpc = "out"
  /\ IsDict(r_in)
  /\ Len(r_in.v) = 3
  /\ r_in.v[3].k = <<"o">>
  /\ r_out.v[3].v.v[1] = JStr(Under(CONTAINER_ROOT, <<"a">>))
  /\ r_out.v[1].v.v[3].v[1] = JStr(Under(CONTAINER_ROOT, <<"a">>))
  /\ HOST_ROOT = S_h /\ CONTAINER_ROOT = S_c

(***************************************************************************)
(* Further properties of the proxy loop                                    *)
(***************************************************************************)

\* C13: a run whose child failed to launch ends with exit code 1, having
\* read nothing and never entered the loop; every other run that has ended
\* has exit code 0 and has called shutdown.
C13_ExitCodes ==
  /\ pc = "exit1" => (ExitCode = 1 /\ oplog = <<>> /\ shutdownCalls = 0)
  /\ pc \in {"done", "crashed"} => (ExitCode = 0 /\ shutdownCalls = 1)

\* buf is a sequence of complete frames: header, blank line and exactly
\* Content-Length bytes of a body that parses.
RECURSIVE WholeFrames(_)
WholeFrames(buf) ==
  \/ buf = <<>>
  \/ \E r \in {read_message(buf, TRUE, FALSE)} : r.at = 254 /\ WholeFrames(r.rest)

\* C15: once the loop has been left, what has been written to the child's
\* stdin and to the client's stdout is a sequence of complete frames.
C15_NoPartialFrame ==
  pc \in {"shutdown"} \cup PastLoopPcs => (WholeFrames(childIn) /\ WholeFrames(clientOut))

\* The messages run has read from the client, in order.
ClientReads ==
  LET reads == SelectSeq(oplog, LAMBDA e : e.op = "read_client" /\ e.at = 254)
  IN  [i \in 1..Len(reads) |-> reads[i].msg]

\* The frames of the ToServer rewrites of the first n messages read from the client.
ForwardedPrefix(n) ==
  FramesOf([i \in 1..n |-> rewrite_object(ClientReads[i], HOST_ROOT, CONTAINER_ROOT)])

\* C17: what has been written to the child's stdin is the frames of the
\* ToServer rewrites of the messages read from the client, in order, all of
\* them or all but the last.
C17_ForwardedInOrder ==
  \/ childIn = ForwardedPrefix(Len(ClientReads))
  \/ Len(ClientReads) > 0 /\ childIn = ForwardedPrefix(Len(ClientReads) - 1)

\* The messages run has written to the client, in order.
ClientWrites ==
  LET writes == SelectSeq(oplog, LAMBDA e : e.op = "write_client" /\ e.res = "ok")
  IN  [i \in 1..Len(writes) |-> writes[i].msg]

\* The k-th message the child emitted: what its frame holds.
Emitted(k) == read_message(childLog[k], TRUE, FALSE).val

\* Two JSON values are the same value: they have the same serialisation.
SameValue(a, b) == json_dumps(a) = json_dumps(b)

\* C14: the k-th message written to the client is the ToClient rewrite of the
\* k-th message the child emitted, whatever id it has or lacks, and these
\* frames are what the client's stdout begins with; the child's stdout is read
\* only while the loop waits for the response to a request it has forwarded.
C14_PairedByPosition ==
  /\ [](/\ Len(ClientWrites) <= Len(childLog)
        /\ \A k \in 1..Len(ClientWrites) :
              SameValue(ClientWrites[k], rewrite_object(Emitted(k), CONTAINER_ROOT, HOST_ROOT))
        /\ Take(clientOut, Len(FramesOf(ClientWrites))) = FramesOf(ClientWrites))
  /\ [][Len(childOut') < Len(childOut) => (pc = "await" /\ ExpectsResponse(client_msg))]_vars

\* The child emitted a notification and then the response to the request it
\* was sent: the client has been given the notification as the response, and
\* the response is still unread on the child's stdout.
C14_Witness ==
  /\ Len(childLog) = 2
  /\ SameValue(Emitted(1), ChildNotification)
  /\ SameValue(Emitted(2), ChildResponse)
  /\ IsDict(client_msg) /\ ExpectsResponse(client_msg)
  /\ Len(ClientWrites) = 1
  /\ ~HasKey(ClientWrites[1], K_id)
  /\ clientOut = Frame(rewrite_object(ChildNotification, CONTAINER_ROOT, HOST_ROOT))
  /\ childOut = Frame(ChildResponse)
  /\ pc = "loop"

(***************************************************************************)
(* Properties of the stderr forwarding thread                              *)
(***************************************************************************)

\* The lines the child has written to its stderr, in order.
ErrWritten == [k \in 1..errSent |-> k]

\* C18: forward_stderr returns only at the end of the child's stderr, having
\* forwarded every line the child wrote, those written after shutdown began
\* included.
C18_StderrForwardedToEnd ==
  tpc = "end" => (ChildGone /\ childErr = <<>> /\ proxyErr = ErrWritten)

(***************************************************************************)
(* Properties of the loop over pipes of finite capacity                    *)
(***************************************************************************)

\* The child is blocked in a write to its stdout: the pipe is full.
ChildBlockedOnStdout == proc = "running" /\ childPending # <<>> /\ Len(childOut) = PipeCap

\* The loop is blocked in write_message: the child's stdin is full.
ProxyBlockedOnStdin ==
  pc = "forward" /\ IsDict(client_msg) /\ proc = "running" /\ StdinFill = PipeCap

\* The loop is blocked in read_message on sys.stdin.
ProxyBlockedOnClient == pc = "loop" /\ read_message(clientIn, clientClosed, FALSE).st = "block"

\* C16: in no reachable state is the loop blocked writing to the child's
\* stdin or reading the client while the child is blocked writing to its full
\* stdout, which the loop reads only while it waits for a response.
C16_NoPipeDeadlock ==
  ~(ChildBlockedOnStdout /\ (ProxyBlockedOnStdin \/ ProxyBlockedOnClient))

=============================================================================
